---- MODULE Spec2Model ----
(***************************************************************************)
(* Concurrent download orchestration of playwright-vsco-downloader:        *)
(* BrowserPool (src/browser/BrowserPool.ts), Semaphore and                  *)
(* ConcurrentDownloadService (src/download/ConcurrentDownloadService.ts).   *)
(*                                                                         *)
(* Every `await` of the source is a yield point: an action runs the code   *)
(* from one suspension point to the next.  Consecutive suspension points   *)
(* between which the code touches no shared state (a bare `return` through *)
(* several async frames) are merged into one.                              *)
(*                                                                         *)
(* Spec    is a run of downloadImagesConcurrently on an initialized pool.  *)
(* SpecSem is the Semaphore class alone, driven by arbitrary callers whose *)
(*         task functions resolve or reject.                               *)
(* SpecAttempt is one download attempt of each download service.           *)
(* SpecFair is Spec under weak fairness of the event loop.                 *)
(* SpecRetry is Spec on one or two items, for every accepted retries value. *)
(* SpecPool is the BrowserPool class alone, driven by callers that get a    *)
(*         context and release it once or twice, or release a foreign one. *)
(* SpecLife is DownloadService.downloadImages in concurrent mode: a new     *)
(*         pool, initialize(), the run of Spec, cleanup() in the finally.  *)
(* SpecEntry is a run from its entry point (the CLI, or a programmatic     *)
(*         Config) to the download loop DownloadService.downloadImages     *)
(*         chooses.                                                        *)
(***************************************************************************)
EXTENDS Integers, Sequences, FiniteSets, TLC

\* ------------------------------------------------------------------ bounds
MaxItems == 4          \* longest input list
MaxCtx == 4            \* browser contexts the browser can create in a run
MaxContextUses == 2    \* BrowserPool.maxContextUses (100 in the source), scaled
MaxRetries == 2        \* largest configured retries value
MaxPermits == 2        \* largest Semaphore size of SpecSem
MaxFileSize == 2       \* largest size of an existing file, in bytes
MaxOption == 11        \* largest maxConcurrency / --concurrency value given
MaxAttempts == 4       \* largest configured retries value of SpecRetry
MaxClients == 3        \* callers of the BrowserPool in SpecPool

Items == 1..MaxItems
CtxIds == 1..MaxCtx

Max(a, b) == IF a < b THEN b ELSE a
Min(a, b) == IF a < b THEN a ELSE b

\* ------------------------------------------------------------ configuration
\* Config.get(key) values read by the download layer (0 stands for "not
\* set"), and two facts about the environment of the run:
\*   longRun      the run can outlast contextLifetime, so contexts age out
\*   faultyPages  context.pages() can throw inside releaseContext
Short ==
  [maxConcurrency |-> 2, enableBatching |-> FALSE, batchSize |-> 0,
   delayBetweenBatches |-> 0, retries |-> 1, n |-> 1,
   longRun |-> FALSE, faultyPages |-> FALSE]

Configs ==
  \* the whole list as one batch, in a short run
  {[Short EXCEPT !.n = n] : n \in 1..MaxItems}
  \* the whole list as one batch, in a long run
  \cup {[Short EXCEPT !.n = n, !.longRun = TRUE] : n \in 1..(MaxItems - 1)}
  \* batches of batchSize (not set: maxConcurrency), with retries
  \cup {[Short EXCEPT !.enableBatching = TRUE, !.batchSize = b,
                      !.delayBetweenBatches = d, !.retries = r, !.n = n] :
          b \in {0, 1, MaxItems - 1}, d \in {0, 500}, r \in 1..MaxRetries,
          n \in 1..(MaxItems - 1)}
  \* a run in which context.pages() can throw
  \cup {[Short EXCEPT !.n = n, !.faultyPages = TRUE] : n \in 1..(MaxItems - 1)}

VARIABLES
  cfg,        \* the Config of the run
  pool,       \* BrowserPool.contextPool: sequence of context ids
  ent,        \* the PooledContext objects, by context id: inUse, useCount
  nextId,     \* next fresh context id
  oldUpTo,    \* contexts with id <= oldUpTo were past contextLifetime at the last sweep
  closed,     \* contexts on which context.close() has been called
  semMax, semCount, semQueue,   \* the Semaphore of the current batch
  pc,         \* per item task: suspension point
  ctx,        \* per item task: `context` of downloadSingleImage (0 = null)
  stale,      \* per item task: rest of staleContexts in cleanupStaleContexts
  idx,        \* per item task: `index` of the running replaceContext
  replaced,   \* per item task: the entry the running replaceContext was given (0: none)
  ret,        \* per item task: caller of the running replaceContext
  attempt,    \* per item task: `attempt` of downloadImageWithContext
  lastError,  \* per item task: `lastError` of downloadImageWithContext
  pcx,        \* per item task: `pooledContext` of getContext (0 = undefined)
  out,        \* per item task: what its task function returned or threw
  res,        \* per item task: what its acquire() promise settled with
  opc,        \* downloadImagesConcurrently: suspension point
  batchLo, batchHi,   \* the current batch is items batchLo+1 .. batchHi
  slices,     \* history: the batches handed to processBatch, in order
  pauseMs,    \* duration of the inter-batch setTimeout being slept
  results,    \* array returned / accumulated by downloadImagesConcurrently
  stats,      \* StatsTracker counters
  delays,     \* history: inter-batch delays slept
  nGet, nRel, \* history: getContext / releaseContext calls made for each item
  relArg,     \* history: argument of the releaseContext call of a running task
  thrown,     \* history: messages thrown by the attempts of a running task
  sleeps,     \* history: durations (ms) of the backoff sleeps of a running task
  acquired,   \* history: items in the order acquire() was called for them
  waited,     \* history: items whose acquire() queued them
  failedIn,   \* history: steps of each item that threw: get, attempts, release
  outOfOrder, \* history: some task finished before an earlier one of its batch
  started,    \* history: items in the order their task function was started
  world,      \* one attempt: the file system, the page and the server it meets
  att,        \* one attempt, by download service: its position and effects
  browser,    \* BrowserPool.browser: "open", or "null" once cleanup closed it
  closeFailed, \* history: contexts whose close() threw inside cleanup
  entry       \* one run from its entry point to the download loop it reaches

poolVars == <<pool, ent, nextId, oldUpTo, closed>>
semVars == <<semMax, semCount, semQueue>>
taskVars == <<pc, ctx, stale, idx, replaced, ret, attempt, lastError, pcx, out, res>>
orchVars == <<opc, batchLo, batchHi, slices, results, stats, delays, pauseMs>>
histVars == <<nGet, nRel, relArg, thrown, sleeps, acquired, waited, failedIn, outOfOrder,
             started>>
sideVars == <<world, att, browser, closeFailed, entry>>
coreVars == <<cfg, poolVars, semVars, taskVars, orchVars, histVars>>
vars == <<coreVars, sideVars>>

\* ------------------------------------------------------ configuration reads
\* `this.config.get("maxConcurrency") || 3`
MaxConcurrency == IF cfg.maxConcurrency = 0 THEN 3 ELSE cfg.maxConcurrency
\* BrowserPool constructor: the same expression
MaxPoolSize == IF cfg.maxConcurrency = 0 THEN 3 ELSE cfg.maxConcurrency
\* `this.config.get("batchSize") || maxConcurrency`
BatchSizeIgnored == MaxConcurrency
BatchSize == IF cfg.batchSize = 0 THEN MaxConcurrency ELSE cfg.batchSize
\* `this.config.get("delayBetweenBatches") || 1000`
DelayBetweenBatches ==
  IF cfg.delayBetweenBatches = 0 THEN 1000 ELSE cfg.delayBetweenBatches
\* `this.config.get("retries") || 3`
Retries == IF cfg.retries = 0 THEN 3 ELSE cfg.retries

\* ------------------------------------------------------------ result values
NoResult == [kind |-> "none", photoId |-> 0, success |-> FALSE,
             skipped |-> FALSE, error |-> ""]
Success(i) == [kind |-> "value", photoId |-> i, success |-> TRUE,
               skipped |-> FALSE, error |-> ""]
Skipped(i) == [kind |-> "value", photoId |-> i, success |-> TRUE,
               skipped |-> TRUE, error |-> ""]
Failure(i, msg) == [kind |-> "value", photoId |-> i, success |-> FALSE,
                    skipped |-> FALSE, error |-> msg]
\* a rejection: an error thrown out of the task function
Rejection(i, msg) == [kind |-> "error", photoId |-> i, success |-> FALSE,
                      skipped |-> FALSE, error |-> msg]

\* the message of the error the a-th attempt of an item throws, if it throws
ErrorOf(a) == <<"attempt 1 failed", "attempt 2 failed", "attempt 3 failed",
                "attempt 4 failed", "attempt 5 failed", "attempt 6 failed">>[a]

\* --------------------------------------------------------------- BrowserPool
FreshEntry == [inUse |-> FALSE, useCount |-> 0]

\* Array.prototype.indexOf, 1-based; 0 stands for -1
IndexOf(s, c) ==
  IF \E k \in 1..Len(s) : s[k] = c
  THEN CHOOSE k \in 1..Len(s) : s[k] = c /\ \A m \in 1..(k - 1) : s[m] # c
  ELSE 0

\* Array.prototype.splice(k, 1), 1-based: past the end it removes nothing
Splice(s, k) ==
  IF k < 1 \/ k > Len(s) THEN s
  ELSE [j \in 1..(Len(s) - 1) |-> IF j < k THEN s[j] ELSE s[j + 1]]

\* the filter of cleanupStaleContexts; `old` is what `now = Date.now()` gave:
\* the contexts with id <= old are older than contextLifetime
StaleContexts(old) ==
  LET IsStale(c) ==
        ~ent[c].inUse /\ (c <= old \/ ent[c].useCount >= MaxContextUses)
  IN SelectSeq(pool, IsStale)

\* `this.contextPool.find(pc => !pc.inUse)`; 0 stands for undefined
IsAvailable(c) == ~ent[c].inUse
FindAvailable ==
  LET av == SelectSeq(pool, IsAvailable) IN IF av = <<>> THEN 0 ELSE Head(av)

\* getPoolSize / getAvailableCount
GetPoolSize == Len(pool)
GetAvailableCount == Len(SelectSeq(pool, IsAvailable))

\* the test of getContext and replaceContext before createContext
CanCreateOneLess(len) == len + 1 < MaxPoolSize
CanCreate(len) == len < MaxPoolSize

\* where replaceContext returns to: the sweep loop of getContext, or the end
\* of releaseContext (and from there to the end of downloadSingleImage)
ReturnPc(r) == IF r = "sweep" THEN "sweep" ELSE "rel_done"

\* where replaceContext goes when its createContext threw: the catch block
\* warns and replaceContext returns to its caller
ReplaceCreateThrewPropagates(r) == "threw"
ReplaceCreateThrew(r) == ReturnPc(r)

\* replaceContext(c) up to its first await: indexOf, then context.close()
ReplaceCall(c, r) ==
  LET k == IndexOf(pool, c) IN
  IF k = 0 THEN [pc |-> ReturnPc(r), idx |-> 0, replaced |-> 0, close |-> {}]
  ELSE [pc |-> "rc_close", idx |-> k, replaced |-> c, close |-> {c}]

\* getContext() up to its first await: cleanupStaleContexts computes the stale
\* list and calls replaceContext on its first element
StartCall(old) ==
  LET st == StaleContexts(old) IN
  IF st = <<>> THEN [pc |-> "sweep", idx |-> 0, replaced |-> 0, stale |-> <<>>,
                     close |-> {}]
  ELSE [pc |-> "rc_close", idx |-> IndexOf(pool, Head(st)), replaced |-> Head(st),
        stale |-> Tail(st), close |-> {Head(st)}]

\* what Date.now() can tell a sweep: time only moves forward, and only
\* contexts that exist can be past contextLifetime, the oldest first
Ages == IF cfg.longRun THEN oldUpTo..(nextId - 1) ELSE {oldUpTo}

\* createContext after `await browser.newContext()`: the push
PoolPush == Append(pool, nextId)

\* the lease marks of getContext
Lease(c) == [ent EXCEPT ![c] = [inUse |-> TRUE, useCount |-> ent[c].useCount + 1]]

\* ----------------------------------------------------------------- Semaphore
\* the test of Semaphore.acquire: run the task now, or queue it
SemAdmitsOneMore(count, max) == count <= max
SemAdmitsOneLess(count, max) == count + 1 < max
SemAdmits(count, max) == count < max

\* one acquire(fn) call for item j on semaphore state s
\* (count, queue, run = tasks executed so far by these calls, in order)
AcquireOne(j, max, s) ==
  IF SemAdmits(s.count, max)
  THEN [s EXCEPT !.count = s.count + 1, !.run = Append(s.run, j)]
  ELSE [s EXCEPT !.queue = Append(s.queue, j)]

\* `batch.map(entry => semaphore.acquire(...))`: the calls in array order
RECURSIVE AcquireAll(_, _, _)
AcquireAll(js, max, s) ==
  IF js = <<>> THEN s ELSE AcquireAll(Tail(js), max, AcquireOne(Head(js), max, s))

\* `this.queue.shift()`: the element taken and the queue left
Pop(q) == [next |-> q[Len(q)], rest |-> SubSeq(q, 1, Len(q) - 1)]
Shift(q) == [next |-> Head(q), rest |-> Tail(q)]

\* `this.queue.length > 0` of the finally block
HasWaitingMoreThanOne(q) == Len(q) > 1
HasWaiting(q) == Len(q) > 0

\* `this.currentCount--` of the finally block; kind is how fn() settled
SemFinallyKeeps(count, kind) == count
SemFinallyOnResolve(count, kind) == IF kind = "error" THEN count ELSE count - 1
SemFinally(count, kind) == count - 1

\* `resolve(result)` / `reject(error)` of execute: what the promise returned
\* by acquire settles with when fn() settled with o
Settle(o) == o

SeqToSet(s) == {s[k] : k \in 1..Len(s)}

\* position of x in s (0: not in s)
Pos(s, x) == IndexOf(s, x)

\* ------------------------------------------------- ConcurrentDownloadService
\* `lastError?.message || "Unknown error after all retries"`
ErrorText(e) == IF e = "" THEN "Unknown error after all retries" ELSE e

\* the loop test after a failed attempt: `attempt < retries`, then the backoff
\* and `attempt++ <= retries`
MoreAttemptsOneLess(a, r) == a + 1 < r
MoreAttempts(a, r) == a < r

\* `Math.pow(2, attempt) * 1000`: the backoff after a failed attempt, in ms
BackoffLinear(a) == 2 * a * 1000
Backoff(a) == (2 ^ a) * 1000

\* StatsTracker.incrementFailed()
IncrementFailedTwice(s) == [s EXCEPT !.failed = s.failed + 2]
IncrementFailed(s) == [s EXCEPT !.failed = s.failed + 1]

\* DownloadService.getDownloadSummary(rs): the three counts
GetDownloadSummary(rs) ==
  [successful |-> Cardinality({k \in 1..Len(rs) : rs[k].success /\ ~rs[k].skipped}),
   failed |-> Cardinality({k \in 1..Len(rs) : ~rs[k].success}),
   skipped |-> Cardinality({k \in 1..Len(rs) : rs[k].success /\ rs[k].skipped})]

\* the counter downloadSingleImage increments for a result
StatsAfterSkipCountsTwice(r) ==
  IF r.success
  THEN [stats EXCEPT !.downloaded = stats.downloaded + 1,
                     !.skipped = stats.skipped + (IF r.skipped THEN 1 ELSE 0)]
  ELSE [stats EXCEPT !.failed = stats.failed + 1]
StatsAfter(r) ==
  IF r.success /\ ~r.skipped
  THEN [stats EXCEPT !.downloaded = stats.downloaded + 1]
  ELSE IF r.skipped THEN [stats EXCEPT !.skipped = stats.skipped + 1]
  ELSE [stats EXCEPT !.failed = stats.failed + 1]

\* `if (context)` of the finally block of downloadSingleImage
HasContextUnchecked(c) == TRUE
HasContext(c) == c # 0

\* what downloadSingleImage settles with when releaseContext threw in its
\* finally block: the error is caught and logged, the result r stands
AfterReleaseThrewRethrows(i, r) == Rejection(i, "releaseContext failed")
AfterReleaseThrew(i, r) == r

\* what Promise.all(promises) of processBatch resolves to
PromiseAllReversed(lo, hi) == [k \in 1..(hi - lo) |-> res[hi + 1 - k]]
PromiseAll(lo, hi) == [k \in 1..(hi - lo) |-> res[lo + k]]

\* the test before the inter-batch setTimeout
NeedsDelayAlways(batchEnd, n, d) == d > 0
NeedsDelay(batchEnd, n, d) == batchEnd < n /\ d > 0

\* `Math.min(i + batchSize, imageEntries.length)`
BatchEnd(i) == Min(i + BatchSize, cfg.n)

\* no task has started, no call has been made
InitTasks ==
  /\ ent = [c \in CtxIds |-> FreshEntry]
  /\ oldUpTo = 0
  /\ closed = {}
  /\ semCount = 0 /\ semQueue = <<>>
  /\ pc = [i \in Items |-> "idle"]
  /\ ctx = [i \in Items |-> 0]
  /\ stale = [i \in Items |-> <<>>]
  /\ idx = [i \in Items |-> 0]
  /\ replaced = [i \in Items |-> 0]
  /\ ret = [i \in Items |-> "sweep"]
  /\ attempt = [i \in Items |-> 0]
  /\ lastError = [i \in Items |-> ""]
  /\ pcx = [i \in Items |-> 0]
  /\ out = [i \in Items |-> NoResult]
  /\ res = [i \in Items |-> NoResult]
  /\ batchLo = 0 /\ batchHi = 0
  /\ slices = <<>>
  /\ pauseMs = 0
  /\ results = <<>>
  /\ stats = [downloaded |-> 0, failed |-> 0, skipped |-> 0]
  /\ delays = 0
  /\ nGet = [i \in Items |-> 0]
  /\ nRel = [i \in Items |-> 0]
  /\ relArg = [i \in Items |-> 0]
  /\ thrown = [i \in Items |-> <<>>]
  /\ sleeps = [i \in Items |-> <<>>]
  /\ acquired = <<>>
  /\ waited = {}
  /\ failedIn = [i \in Items |-> {}]
  /\ outOfOrder = FALSE
  /\ started = <<>>

InitRest ==
  /\ pool = <<1>>                      \* BrowserPool.initialize()
  /\ nextId = 2
  /\ opc = "init"
  /\ InitTasks

\* a single attempt, as made by each of the two download services
Modes == {"sequential", "concurrent"}

\* what an attempt can meet: whether a file of the item exists and its size,
\* Config.get("dryRun"), what the item's VSCO page holds (an image with
\* metadata, an image only, no image) and how the image URL answers
Worlds ==
  [exists : BOOLEAN, size : 0..MaxFileSize, dryRun : BOOLEAN,
   page : {"meta", "plain", "broken"}, response : {"ok", "http", "empty"}]

NoAttemptResult ==
  [kind |-> "none", success |-> FALSE, skipped |-> FALSE, dryRun |-> FALSE,
   size |-> 0, meta |-> "none", error |-> ""]
\* the attempt function has been called and has not run yet
FreshAttempt ==
  [pc |-> "start", result |-> NoAttemptResult, navigated |-> 0, fetched |-> 0,
   written |-> 0, counted |-> "", meta |-> "none"]
\* an optional value of JavaScript: <<>> is undefined, <<v>> is the value v
Undefined == <<>>
\* no entry path is modelled: the run starts inside the download service
NoEntry ==
  [path |-> "none", pc |-> "none", given |-> Undefined, n |-> 0,
   concurrency |-> Undefined, maxConcurrency |-> Undefined, mode |-> "none",
   workers |-> 0, poolSize |-> 0, processed |-> 0,
   noBatchingFlag |-> FALSE, opts |-> [batching |-> TRUE],
   enableBatching |-> Undefined, batching |-> "none",
   cleanups |-> 0, outcome |-> "none"]
\* no attempt is modelled step by step
IdleAttempts ==
  /\ world = [exists |-> FALSE, size |-> 0, dryRun |-> FALSE, page |-> "meta",
              response |-> "ok"]
  /\ att = [m \in Modes |-> [FreshAttempt EXCEPT !.pc = "none"]]
NoAttempt ==
  /\ browser = "open" /\ closeFailed = {}
  /\ entry = NoEntry
  /\ IdleAttempts

Init ==
  /\ cfg \in Configs
  /\ semMax = 0
  /\ InitRest
  /\ NoAttempt

\* processBatch(items lo+1..hi) up to `await Promise.all`: a new Semaphore,
\* one acquire per item; every task run at once executes downloadSingleImage
\* up to the first await of getContext
StartBatch(lo, hi, old) ==
  LET max == Min(hi - lo, MaxConcurrency)
      js == [k \in 1..(hi - lo) |-> lo + k]
      s == AcquireAll(js, max, [count |-> 0, queue |-> <<>>, run |-> <<>>])
      S == SeqToSet(s.run)
      Q == SeqToSet(s.queue)
      sc == StartCall(old)
  IN /\ oldUpTo' = old
     /\ semMax' = max /\ semCount' = s.count /\ semQueue' = s.queue
     /\ pc' = [j \in Items |-> IF j \in S THEN sc.pc
                               ELSE IF j \in Q THEN "queued" ELSE pc[j]]
     /\ idx' = [j \in Items |-> IF j \in S THEN sc.idx ELSE idx[j]]
     /\ replaced' = [j \in Items |-> IF j \in S THEN sc.replaced ELSE replaced[j]]
     /\ stale' = [j \in Items |-> IF j \in S THEN sc.stale ELSE stale[j]]
     /\ closed' = IF S = {} THEN closed ELSE closed \cup sc.close
     /\ nGet' = [j \in Items |-> IF j \in S THEN nGet[j] + 1 ELSE nGet[j]]
     /\ acquired' = acquired \o js
     /\ waited' = waited \cup Q
     /\ started' = started \o s.run
     /\ batchLo' = lo /\ batchHi' = hi
     /\ slices' = Append(slices, [lo |-> lo, hi |-> hi])
     /\ opc' = "batch"

\* downloadImagesConcurrently is called
Begin ==
  /\ opc = "init"
  /\ \E old \in Ages :
       IF ~cfg.enableBatching THEN StartBatch(0, cfg.n, old)
       ELSE StartBatch(0, BatchEnd(0), old)
  /\ UNCHANGED <<cfg, sideVars, pool, ent, nextId, ctx, ret, attempt, lastError,
                 pcx, out, res, results, stats, delays, pauseMs, nRel, relArg, thrown, sleeps,
                 failedIn, outOfOrder>>

\* what StartBatch writes, left alone
NoStart ==
  UNCHANGED <<oldUpTo, semVars, pc, idx, replaced, stale, closed, nGet, acquired, waited,
              started, batchLo, batchHi, slices>>

\* Promise.all of the current batch settles: it rejects with the first
\* rejection, or resolves once every promise has resolved; then the loop of
\* downloadImagesConcurrently runs up to its next await
BatchSettled ==
  /\ opc = "batch"
  /\ LET B == (batchLo + 1)..batchHi IN
     IF \E j \in B : res[j].kind = "error"
     THEN /\ opc' = "rejected"
          /\ NoStart
          /\ UNCHANGED <<results, delays, pauseMs>>
     ELSE /\ \A j \in B : res[j].kind = "value"
          /\ IF ~cfg.enableBatching
             THEN /\ results' = PromiseAll(batchLo, batchHi)
                  /\ opc' = "done"
                  /\ NoStart
                  /\ UNCHANGED <<delays, pauseMs>>
             ELSE /\ results' = results \o PromiseAll(batchLo, batchHi)
                  /\ IF NeedsDelay(batchHi, cfg.n, DelayBetweenBatches)
                     THEN /\ opc' = "delay"
                          /\ delays' = delays + 1
                          /\ pauseMs' = DelayBetweenBatches
                          /\ NoStart
                     ELSE IF batchHi < cfg.n
                     THEN /\ \E old \in Ages :
                               StartBatch(batchHi, BatchEnd(batchHi), old)
                          /\ UNCHANGED <<delays, pauseMs>>
                     ELSE /\ opc' = "done"
                          /\ NoStart
                          /\ UNCHANGED <<delays, pauseMs>>
  /\ UNCHANGED <<cfg, sideVars, pool, ent, nextId, ctx, ret, attempt, lastError, pcx,
                 out, res, stats, nRel, relArg, thrown, sleeps, failedIn, outOfOrder>>

\* the inter-batch setTimeout fires: the loop goes on with the next batch
DelayElapsed ==
  /\ opc = "delay"
  /\ \E old \in Ages : StartBatch(batchHi, BatchEnd(batchHi), old)
  /\ UNCHANGED <<cfg, sideVars, pool, ent, nextId, ctx, ret, attempt, lastError,
                 pcx, out, res, results, stats, delays, pauseMs, nRel, relArg, thrown, sleeps,
                 failedIn, outOfOrder>>

\* ------------------------------------------------------- the per-item tasks
\* `this.contextPool.find(pc => pc.context === context)` of releaseContext
\* found an entry
IsKnownOnceCreated(c) == c \in CtxIds
IsKnown(c) == IndexOf(pool, c) # 0

\* releaseContext from `pooledContext.inUse = false` on
ReleaseMark(i, c) ==
  /\ ent' = [ent EXCEPT ![c].inUse = FALSE]
  /\ IF ent[c].useCount >= MaxContextUses
     THEN LET rc == ReplaceCall(c, "release") IN
          /\ pc' = [pc EXCEPT ![i] = rc.pc]
          /\ idx' = [idx EXCEPT ![i] = rc.idx]
          /\ replaced' = [replaced EXCEPT ![i] = rc.replaced]
          /\ ret' = [ret EXCEPT ![i] = "release"]
          /\ closed' = closed \cup rc.close
     ELSE /\ pc' = [pc EXCEPT ![i] = "rel_done"]
          /\ UNCHANGED <<idx, replaced, ret, closed>>

\* releaseContext(c) up to its first await: the lookup, context.pages(), the
\* page loop.  pages: what context.pages() does: "none" (empty list), "some"
\* (pages to close), "throws"
ReleaseCall(i, c, r, pages) ==
  IF ~IsKnown(c)
  THEN /\ pc' = [pc EXCEPT ![i] = "rel_done"]
       /\ out' = [out EXCEPT ![i] = r]
       /\ UNCHANGED <<ent, idx, replaced, ret, closed>>
  ELSE IF pages = "throws"
  THEN /\ pc' = [pc EXCEPT ![i] = "rel_done"]
       /\ out' = [out EXCEPT ![i] = AfterReleaseThrew(i, r)]
       /\ UNCHANGED <<ent, idx, replaced, ret, closed>>
  ELSE IF pages = "some"
  THEN /\ pc' = [pc EXCEPT ![i] = "rel_pages"]
       /\ out' = [out EXCEPT ![i] = r]
       /\ UNCHANGED <<ent, idx, replaced, ret, closed>>
  ELSE /\ out' = [out EXCEPT ![i] = r]
       /\ ReleaseMark(i, c)

\* the finally block of downloadSingleImage, entered with result r; why: the
\* steps of the item that threw before
Finally(i, c, r, pages, why) ==
  IF HasContext(c)
  THEN /\ nRel' = [nRel EXCEPT ![i] = nRel[i] + 1]
       /\ relArg' = [relArg EXCEPT ![i] = c]
       /\ failedIn' = [failedIn EXCEPT ![i] =
            IF IndexOf(pool, c) # 0 /\ pages = "throws"
            THEN why \cup {"release"} ELSE why]
       /\ ReleaseCall(i, c, r, pages)
  ELSE /\ out' = [out EXCEPT ![i] = r]
       /\ pc' = [pc EXCEPT ![i] = "rel_done"]
       /\ failedIn' = [failedIn EXCEPT ![i] = why]
       /\ UNCHANGED <<nRel, relArg, ent, idx, replaced, ret, closed>>

\* what context.pages() can do in this run
PagesOutcomes == IF cfg.faultyPages THEN {"none", "some", "throws"}
                 ELSE {"none", "some"}

\* the catch block of downloadSingleImage, taken when getContext throws, then
\* its finally block: context is still null
GetContextThrew(i, msg) ==
  /\ stats' = IncrementFailed(stats)
  /\ Finally(i, ctx[i], Failure(i, msg), "none", {"get"})

\* downloadSingleImage from the return of downloadImageWithContext on: the
\* counter, `return result`, then the finally block
TaskReturn(i, r, pages, why) ==
  /\ stats' = StatsAfter(r)
  /\ Finally(i, ctx[i], r, pages, why)

\* getContext resumes after `await this.cleanupStaleContexts()` or inside the
\* sweep loop: the next replaceContext of the loop, or the find / create /
\* capacity error and the lease
SweepOrFind(i) ==
  /\ pc[i] = "sweep"
  /\ IF stale[i] # <<>>
     THEN LET rc == ReplaceCall(Head(stale[i]), "sweep") IN
          /\ pc' = [pc EXCEPT ![i] = rc.pc]
          /\ idx' = [idx EXCEPT ![i] = rc.idx]
          /\ replaced' = [replaced EXCEPT ![i] = rc.replaced]
          /\ stale' = [stale EXCEPT ![i] = Tail(stale[i])]
          /\ closed' = closed \cup rc.close
          /\ UNCHANGED <<ent, ctx, attempt, out, stats, ret, nRel, relArg, failedIn>>
     ELSE LET c == FindAvailable IN
          IF c # 0
          THEN /\ ent' = Lease(c)
               /\ ctx' = [ctx EXCEPT ![i] = c]
               /\ attempt' = [attempt EXCEPT ![i] = 1]
               /\ pc' = [pc EXCEPT ![i] = "attempt"]
               /\ UNCHANGED <<idx, replaced, stale, closed, out, stats, ret, nRel, relArg,
                              failedIn>>
          ELSE IF CanCreate(Len(pool))
          THEN /\ pc' = [pc EXCEPT ![i] = "gc_create"]
               /\ UNCHANGED <<ent, ctx, attempt, idx, replaced, stale, closed, out, stats,
                              ret, nRel, relArg, failedIn>>
          ELSE /\ GetContextThrew(i, "No browser contexts available and pool is at capacity")
               /\ UNCHANGED <<ctx, attempt, stale>>
  /\ UNCHANGED <<cfg, sideVars, pool, nextId, oldUpTo, semVars, lastError, pcx, res,
                 opc, batchLo, batchHi, slices, results, delays, pauseMs, nGet, thrown, sleeps, acquired,
                 waited, outOfOrder, started>>

\* createContext called by getContext resumes: newContext() resolved (the
\* entry is pushed) or rejected (getContext throws)
GetAfterCreate(i) ==
  /\ pc[i] = "gc_create"
  /\ \/ /\ nextId <= MaxCtx
        /\ pool' = PoolPush
        /\ nextId' = nextId + 1
        /\ pcx' = [pcx EXCEPT ![i] = nextId]
        /\ pc' = [pc EXCEPT ![i] = "gc_created"]
        /\ UNCHANGED <<out, stats, nRel, relArg, ent, idx, replaced, ret, closed, failedIn>>
     \/ /\ GetContextThrew(i, "newContext failed")
        /\ UNCHANGED <<pool, nextId, pcx>>
  /\ UNCHANGED <<cfg, sideVars, oldUpTo, semVars, ctx, stale, attempt, lastError, res,
                 opc, batchLo, batchHi, slices, results, delays, pauseMs, nGet, thrown, sleeps, acquired,
                 waited, outOfOrder, started>>

\* getContext resumes after `await this.createContext()`: the lease
GetMark(i) ==
  /\ pc[i] = "gc_created"
  /\ ent' = Lease(pcx[i])
  /\ ctx' = [ctx EXCEPT ![i] = pcx[i]]
  /\ pcx' = [pcx EXCEPT ![i] = 0]
  /\ attempt' = [attempt EXCEPT ![i] = 1]
  /\ pc' = [pc EXCEPT ![i] = "attempt"]
  /\ UNCHANGED <<cfg, sideVars, pool, nextId, oldUpTo, closed, semVars, stale, idx, replaced, ret,
                 lastError, out, res, orchVars, histVars>>

\* replaceContext resumes after `await pooledContext.context.close()`: the
\* splice at the index taken before the await, then createContext if the pool
\* is below maxPoolSize
ReplaceAfterClose(i) ==
  /\ pc[i] = "rc_close"
  /\ pool' = Splice(pool, idx[i])
  /\ idx' = [idx EXCEPT ![i] = 0]
  /\ replaced' = [replaced EXCEPT ![i] = 0]
  /\ pc' = [pc EXCEPT ![i] = IF CanCreate(Len(pool')) THEN "rc_create"
                             ELSE ReturnPc(ret[i])]
  /\ UNCHANGED <<cfg, sideVars, ent, nextId, oldUpTo, closed, semVars, ctx, stale, ret,
                 attempt, lastError, pcx, out, res, orchVars, histVars>>

\* createContext called by replaceContext resumes: the push, or the caught
\* failure; replaceContext returns to its caller
ReplaceAfterCreate(i) ==
  /\ pc[i] = "rc_create"
  /\ \/ /\ nextId <= MaxCtx
        /\ pool' = PoolPush
        /\ nextId' = nextId + 1
        /\ pc' = [pc EXCEPT ![i] = ReturnPc(ret[i])]
     \/ /\ pc' = [pc EXCEPT ![i] = ReplaceCreateThrew(ret[i])]
        /\ UNCHANGED <<pool, nextId>>
  /\ UNCHANGED <<cfg, sideVars, ent, oldUpTo, closed, semVars, ctx, stale, idx, replaced, ret,
                 attempt, lastError, pcx, out, res, orchVars, histVars>>

\* one attemptDownloadWithContext settles: the file exists, it was downloaded,
\* or the attempt threw
Attempt(i) ==
  /\ pc[i] = "attempt"
  /\ \E o \in {"exists", "ok", "throw"}, pages \in PagesOutcomes :
       IF o = "exists"
       THEN TaskReturn(i, Skipped(i), pages, {}) /\ UNCHANGED <<lastError, thrown, sleeps>>
       ELSE IF o = "ok"
       THEN TaskReturn(i, Success(i), pages, {}) /\ UNCHANGED <<lastError, thrown, sleeps>>
       ELSE /\ lastError' = [lastError EXCEPT ![i] = ErrorOf(attempt[i])]
            /\ thrown' = [thrown EXCEPT ![i] = Append(thrown[i], ErrorOf(attempt[i]))]
            /\ IF MoreAttempts(attempt[i], Retries)
               THEN /\ pc' = [pc EXCEPT ![i] = "backoff"]
                    /\ sleeps' = [sleeps EXCEPT ![i] =
                                    Append(sleeps[i], Backoff(attempt[i]))]
                    /\ UNCHANGED <<out, stats, nRel, relArg, ent, idx, replaced, ret, closed,
                                   failedIn>>
               ELSE /\ TaskReturn(i, Failure(i, ErrorText(lastError'[i])), pages,
                                  {"attempts"})
                    /\ UNCHANGED sleeps
  /\ UNCHANGED <<cfg, sideVars, pool, nextId, oldUpTo, semVars, ctx, stale, attempt, pcx,
                 res, opc, batchLo, batchHi, slices, results, delays, pauseMs, nGet, acquired,
                 waited, outOfOrder, started>>

\* the backoff setTimeout fires: the next attempt starts
BackoffElapsed(i) ==
  /\ pc[i] = "backoff"
  /\ attempt' = [attempt EXCEPT ![i] = attempt[i] + 1]
  /\ pc' = [pc EXCEPT ![i] = "attempt"]
  /\ UNCHANGED <<cfg, sideVars, poolVars, semVars, ctx, stale, idx, replaced, ret, lastError, pcx,
                 out, res, orchVars, histVars>>

\* releaseContext resumes after the page.close() loop
ReleaseAfterPages(i) ==
  /\ pc[i] = "rel_pages"
  /\ ReleaseMark(i, ctx[i])
  /\ UNCHANGED <<cfg, sideVars, pool, nextId, oldUpTo, semVars, ctx, stale, attempt,
                 lastError, pcx, out, res, orchVars, histVars>>

\* `execute` of Semaphore.acquire resumes after `await fn()`: the promise is
\* settled, then the finally block gives the slot back and runs the head of
\* the queue up to its first await
Finish(i) ==
  /\ pc[i] = "rel_done"
  /\ res' = [res EXCEPT ![i] = Settle(out[i])]
  /\ outOfOrder' = (outOfOrder \/ \E m \in (batchLo + 1)..(i - 1) : pc[m] # "done")
  /\ IF HasWaiting(semQueue)
     THEN \E old \in Ages :
          LET sh == Shift(semQueue)
              j == sh.next
              sc == StartCall(old)
          IN /\ oldUpTo' = old
             /\ semQueue' = sh.rest
             /\ semCount' = SemFinally(semCount, out[i].kind) + 1
             /\ pc' = [pc EXCEPT ![i] = "done", ![j] = sc.pc]
             /\ idx' = [idx EXCEPT ![j] = sc.idx]
             /\ replaced' = [replaced EXCEPT ![j] = sc.replaced]
             /\ stale' = [stale EXCEPT ![j] = sc.stale]
             /\ closed' = closed \cup sc.close
             /\ nGet' = [nGet EXCEPT ![j] = nGet[j] + 1]
             /\ started' = Append(started, j)
     ELSE /\ semCount' = SemFinally(semCount, out[i].kind)
          /\ pc' = [pc EXCEPT ![i] = "done"]
          /\ UNCHANGED <<semQueue, idx, replaced, stale, closed, nGet, started, oldUpTo>>
  \* the locals of the finished task are gone
  /\ ctx' = [ctx EXCEPT ![i] = 0]
  /\ ret' = [ret EXCEPT ![i] = "sweep"]
  /\ attempt' = [attempt EXCEPT ![i] = 0]
  /\ lastError' = [lastError EXCEPT ![i] = ""]
  /\ relArg' = [relArg EXCEPT ![i] = 0]
  /\ thrown' = [thrown EXCEPT ![i] = <<>>]
  /\ sleeps' = [sleeps EXCEPT ![i] = <<>>]
  /\ UNCHANGED <<cfg, sideVars, pool, ent, nextId, semMax, pcx, out, orchVars, nRel,
                 acquired, waited, failedIn>>

\* whether cleanup goes on to `this.contextPool.length = 0` after the close
\* loop, given that some context.close() threw: the catch inside the loop
\* swallows the error
ReachesClearIfAllClosed(someCloseThrew) == ~someCloseThrew
ReachesClear(someCloseThrew) == TRUE

\* BrowserPool.cleanup(), called once the run has returned (the finally block
\* of DownloadService.downloadImages) and possibly a second time. No task is
\* alive, so nothing runs between its awaits: the close loop over the pool
\* (F: the contexts whose close() throws), the clearing of the pool, then
\* browser.close(), whose error the outer catch logs
CleanupCall ==
  \E F \in SUBSET SeqToSet(pool), browserCloses \in BOOLEAN :
    /\ closed' = closed \cup (SeqToSet(pool) \ F)
    /\ closeFailed' = closeFailed \cup F
    /\ IF ReachesClear(F # {})
       THEN /\ pool' = <<>>
            /\ browser' = IF browser = "open" /\ browserCloses
                          THEN "null" ELSE browser
       ELSE UNCHANGED <<pool, browser>>
Cleanup ==
  /\ opc \in {"done", "cleaned"}
  /\ CleanupCall
  /\ opc' = IF opc = "done" THEN "cleaned" ELSE "cleaned2"
  /\ UNCHANGED <<cfg, ent, nextId, oldUpTo, semVars, taskVars, batchLo, batchHi,
                 slices, results, stats, delays, pauseMs, histVars, world, att,
                 entry>>

Next ==
  \/ Begin
  \/ BatchSettled
  \/ DelayElapsed
  \/ Cleanup
  \/ \E i \in Items :
       \/ SweepOrFind(i)
       \/ GetAfterCreate(i)
       \/ GetMark(i)
       \/ ReplaceAfterClose(i)
       \/ ReplaceAfterCreate(i)
       \/ Attempt(i)
       \/ BackoffElapsed(i)
       \/ ReleaseAfterPages(i)
       \/ Finish(i)

Spec == Init /\ [][Next]_vars

\* the same run under fair scheduling: the event loop runs a continuation
\* that is ready, every timer fires and every awaited browser or file
\* operation settles, so a step that can be taken is eventually taken
FairConfigs ==
  {c \in Configs :
     \/ c.n <= MaxItems - 2
     \/ c.n = MaxItems - 1 /\ ~c.longRun /\ ~c.enableBatching}
InitFair ==
  /\ cfg \in FairConfigs
  /\ semMax = 0
  /\ InitRest
  /\ NoAttempt
SpecFair == InitFair /\ [][Next]_vars /\ WF_vars(Next)

\* the same run for every retries value Config.validateConfig accepts, 0
\* included (Config gives retries the default 3, so Config.get("retries") is
\* 0 only when 0 was configured), on one or two items
RetryConfigs ==
  {[Short EXCEPT !.retries = r, !.n = n, !.longRun = l] :
     r \in 0..MaxAttempts, n \in 1..2, l \in BOOLEAN}
  \cup {[Short EXCEPT !.retries = r, !.n = 2, !.enableBatching = TRUE,
                       !.batchSize = 1, !.delayBetweenBatches = 500] :
          r \in 0..MaxAttempts}
InitRetry ==
  /\ cfg \in RetryConfigs
  /\ semMax = 0
  /\ InitRest
  /\ NoAttempt
SpecRetry == InitRetry /\ [][Next]_vars

\* ------------------------------- DownloadService.downloadImages, concurrent
\* `new BrowserPool(config)`, then `try { await browserPool.initialize();
\* return await downloadImagesConcurrently(...) } finally { await
\* browserPool.cleanup() }`.  entry.pc is the position in downloadImages,
\* entry.outcome what the try block ended with, entry.cleanups the cleanup()
\* calls made
LifeConfigs == {c \in Configs : c.n <= 2}
InitLife ==
  /\ cfg \in LifeConfigs
  /\ semMax = 0
  /\ pool = <<>>                       \* a new BrowserPool
  /\ nextId = 1
  /\ opc = "new"
  /\ InitTasks
  /\ browser = "null" /\ closeFailed = {}
  /\ entry = [NoEntry EXCEPT !.pc = "initialize", !.mode = "concurrent", !.n = cfg.n,
                             !.maxConcurrency = <<cfg.maxConcurrency>>]
  /\ IdleAttempts

\* where downloadImages goes when initialize() threw: initialize is awaited
\* inside the try block, so the finally block runs
AfterInitializeThrew == "finally"

\* `await browserPool.initialize()` settles: chromium.launch and the first
\* createContext succeeded, or one of them threw
Initialize ==
  /\ entry.pc = "initialize"
  /\ \E o \in {"ok", "launch throws", "newContext throws"} :
       IF o = "ok"
       THEN /\ browser' = "open"
            /\ pool' = PoolPush
            /\ nextId' = nextId + 1
            /\ opc' = "init"
            /\ entry' = [entry EXCEPT !.pc = "concurrent"]
       ELSE /\ browser' = IF o = "launch throws" THEN "null" ELSE "open"
            /\ entry' = [entry EXCEPT !.pc = AfterInitializeThrew,
                                      !.outcome = "threw"]
            /\ UNCHANGED <<pool, nextId, opc>>
  /\ UNCHANGED <<cfg, ent, oldUpTo, closed, semVars, taskVars, batchLo, batchHi,
                 slices, results, stats, delays, pauseMs, histVars, world, att,
                 closeFailed>>

\* `await concurrentDownloader.downloadImagesConcurrently(...)` settles and
\* the try block is left
RunSettled ==
  /\ entry.pc = "concurrent"
  /\ opc \in {"done", "rejected"}
  /\ entry' = [entry EXCEPT !.pc = "finally",
                            !.outcome = IF opc = "done" THEN "returned" ELSE "threw",
                            !.processed = Len(results)]
  /\ UNCHANGED <<coreVars, world, att, browser, closeFailed>>

\* the finally block: `await browserPool.cleanup()`, which does not throw,
\* then downloadImages returns the results or rethrows
FinallyCleanup ==
  /\ entry.pc = "finally"
  /\ CleanupCall
  /\ entry' = [entry EXCEPT !.pc = entry.outcome, !.cleanups = entry.cleanups + 1]
  /\ UNCHANGED <<cfg, ent, nextId, oldUpTo, semVars, taskVars, orchVars, histVars,
                 world, att>>

NextLife ==
  \/ Initialize
  \/ Begin
  \/ BatchSettled
  \/ DelayElapsed
  \/ RunSettled
  \/ FinallyCleanup
  \/ \E i \in Items :
       \/ SweepOrFind(i)
       \/ GetAfterCreate(i)
       \/ GetMark(i)
       \/ ReplaceAfterClose(i)
       \/ ReplaceAfterCreate(i)
       \/ Attempt(i)
       \/ BackoffElapsed(i)
       \/ ReleaseAfterPages(i)
       \/ Finish(i)

SpecLife == InitLife /\ [][NextLife]_vars

\* ------------------------------------------------- the BrowserPool class alone
\* a BrowserContext that no BrowserPool created
Foreign == MaxCtx + 1
Clients == 1..MaxClients

InitPool ==
  /\ cfg \in {[Short EXCEPT !.n = MaxClients, !.longRun = l, !.faultyPages = f] :
                l \in BOOLEAN, f \in BOOLEAN}
  /\ semMax = 0
  /\ InitRest
  /\ NoAttempt

\* what the pool harness leaves alone whoever calls
PoolFrame ==
  UNCHANGED <<cfg, sideVars, pool, nextId, semVars, ctx, attempt, lastError, pcx,
              res, orchVars, thrown, sleeps, acquired, waited, outOfOrder, started>>

\* caller i calls getContext(): it runs up to its first await
PoolGet(i) ==
  /\ pc[i] = "idle"
  /\ \E old \in Ages :
       LET sc == StartCall(old) IN
       /\ oldUpTo' = old
       /\ pc' = [pc EXCEPT ![i] = sc.pc]
       /\ idx' = [idx EXCEPT ![i] = sc.idx]
       /\ replaced' = [replaced EXCEPT ![i] = sc.replaced]
       /\ stale' = [stale EXCEPT ![i] = sc.stale]
       /\ closed' = closed \cup sc.close
  /\ nGet' = [nGet EXCEPT ![i] = nGet[i] + 1]
  /\ UNCHANGED <<ent, ret, out, nRel, relArg, failedIn>>
  /\ PoolFrame

\* caller i calls releaseContext with the context it was given: a first time
\* while it holds it, or a second time after its first call has returned or
\* thrown; failedIn records a call that threw
PoolRelease(i) ==
  /\ pc[i] \in {"attempt", "rel_done"}
  /\ ctx[i] # 0
  /\ nRel[i] = (IF pc[i] = "attempt" THEN 0 ELSE 1)
  /\ nRel' = [nRel EXCEPT ![i] = nRel[i] + 1]
  /\ relArg' = [relArg EXCEPT ![i] = ctx[i]]
  /\ \E pages \in PagesOutcomes :
       /\ ReleaseCall(i, ctx[i], Success(i), pages)
       /\ failedIn' = [failedIn EXCEPT ![i] =
            IF IsKnown(ctx[i]) /\ pages = "throws"
            THEN failedIn[i] \cup {"release"} ELSE failedIn[i]]
  /\ UNCHANGED <<oldUpTo, stale, nGet>>
  /\ PoolFrame

\* caller i calls releaseContext with a context the pool never created
PoolReleaseForeign(i) ==
  /\ pc[i] = "idle"
  /\ nRel' = [nRel EXCEPT ![i] = nRel[i] + 1]
  /\ relArg' = [relArg EXCEPT ![i] = Foreign]
  /\ \E pages \in PagesOutcomes : ReleaseCall(i, Foreign, Success(i), pages)
  /\ UNCHANGED <<oldUpTo, stale, nGet, failedIn>>
  /\ PoolFrame

NextPool ==
  \E i \in Clients :
    \/ PoolGet(i)
    \/ PoolRelease(i)
    \/ PoolReleaseForeign(i)
    \/ SweepOrFind(i)
    \/ GetAfterCreate(i)
    \/ GetMark(i)
    \/ ReplaceAfterClose(i)
    \/ ReplaceAfterCreate(i)
    \/ ReleaseAfterPages(i)

SpecPool == InitPool /\ [][NextPool]_vars

\* ------------------------------------------------- the Semaphore class alone
InitSem ==
  /\ cfg = Short
  /\ semMax \in 1..MaxPermits          \* new Semaphore(maxConcurrent)
  /\ InitRest
  /\ NoAttempt

\* a caller calls acquire(fn) for task i
SemAcquire(i) ==
  /\ pc[i] = "idle"
  /\ LET s == AcquireOne(i, semMax,
                         [count |-> semCount, queue |-> semQueue, run |-> <<>>])
     IN /\ semCount' = s.count
        /\ semQueue' = s.queue
        /\ pc' = [pc EXCEPT ![i] = IF s.run = <<>> THEN "queued" ELSE "running"]
        /\ waited' = IF s.run = <<>> THEN waited \cup {i} ELSE waited
        /\ started' = started \o s.run
  /\ acquired' = Append(acquired, i)
  /\ UNCHANGED <<cfg, sideVars, poolVars, semMax, ctx, stale, idx, replaced, ret, attempt,
                 lastError, pcx, out, res, orchVars, nGet, nRel, relArg, thrown, sleeps,
                 failedIn, outOfOrder>>

\* the task function of i settles (it resolves or rejects) and `execute`
\* resumes: the promise is settled, the finally block gives the slot back and
\* runs the head of the queue
SemSettle(i) ==
  /\ pc[i] = "running"
  /\ \E o \in {Success(i), Rejection(i, "fn rejected")} :
       /\ out' = [out EXCEPT ![i] = o]
       /\ res' = [res EXCEPT ![i] = Settle(o)]
       /\ IF HasWaiting(semQueue)
          THEN LET sh == Shift(semQueue) IN
               /\ semQueue' = sh.rest
               /\ semCount' = SemFinally(semCount, o.kind) + 1
               /\ pc' = [pc EXCEPT ![i] = "done", ![sh.next] = "running"]
               /\ started' = Append(started, sh.next)
          ELSE /\ semCount' = SemFinally(semCount, o.kind)
               /\ pc' = [pc EXCEPT ![i] = "done"]
               /\ UNCHANGED <<semQueue, started>>
  /\ UNCHANGED <<cfg, sideVars, poolVars, semMax, ctx, stale, idx, replaced, ret, attempt,
                 lastError, pcx, orchVars, nGet, nRel, relArg, thrown, sleeps, acquired,
                 waited, failedIn, outOfOrder>>

NextSem == \E i \in Items : SemAcquire(i) \/ SemSettle(i)

SpecSem == InitSem /\ [][NextSem]_vars

\* --------------------------------------------------- one attempt, step by step
\* attemptDownloadWithContext (concurrent) and attemptDownload (sequential),
\* each run once against its own copy of the same world
InitAttempt ==
  /\ cfg = Short
  /\ semMax = 0
  /\ InitRest
  /\ world \in Worlds
  /\ att = [m \in Modes |-> FreshAttempt]
  /\ browser = "open" /\ closeFailed = {}
  /\ entry = NoEntry

\* `existingFile.size ?? 0` (sz = -1: undefined)
SizeOrZero(sz) == IF sz = -1 THEN 0 ELSE sz
\* FileSystemService.imageExists
ImageExists(w) == IF w.exists THEN [exists |-> TRUE, size |-> w.size]
                  ELSE [exists |-> FALSE, size |-> -1]
\* the branch an attempt takes after imageExists: the existence test, then the
\* dry-run test
FirstCheckDryRunFirst(w) ==
  IF w.dryRun THEN "dry" ELSE IF ImageExists(w).exists THEN "skip" ELSE "download"
FirstCheck(w) ==
  IF ImageExists(w).exists THEN "skip" ELSE IF w.dryRun THEN "dry" ELSE "download"
\* the metadata extractVscoImageMetadata returns for a page with an image
MetaOf(page) == IF page = "meta" THEN "meta" ELSE "none"
SkippedResult(sz, meta) ==
  [kind |-> "value", success |-> TRUE, skipped |-> TRUE, dryRun |-> FALSE,
   size |-> sz, meta |-> meta, error |-> ""]
DryRunResult ==
  [kind |-> "value", success |-> TRUE, skipped |-> FALSE, dryRun |-> TRUE,
   size |-> 0, meta |-> "none", error |-> ""]
DownloadedResult(sz, meta) ==
  [kind |-> "value", success |-> TRUE, skipped |-> FALSE, dryRun |-> FALSE,
   size |-> sz, meta |-> meta, error |-> ""]
AttemptThrew(msg) == [NoAttemptResult EXCEPT !.kind = "error", !.error = msg]
\* size of the image the server sends, in bytes
ImageBytes == 1

\* which service skips the page visit for a file that exists
SkipsWithoutMetadata(m) == m = "concurrent"

\* the attempt resumes after `await this.fs.imageExists(photoId)`
AttemptStart(m) ==
  /\ att[m].pc = "start"
  /\ LET e == ImageExists(world)
         branch == FirstCheck(world) IN
     att' = [att EXCEPT ![m] =
       IF branch = "skip"
       THEN IF SkipsWithoutMetadata(m)
            THEN [@ EXCEPT !.pc = "returned",
                           !.result = SkippedResult(SizeOrZero(e.size), "none")]
            ELSE [@ EXCEPT !.pc = "skipmeta", !.counted = "skipped"]
       ELSE IF branch = "dry"
       THEN [@ EXCEPT !.pc = "returned", !.result = DryRunResult,
                      !.counted = IF m = "sequential" THEN "downloaded" ELSE @]
       ELSE [@ EXCEPT !.pc = "meta"]]
  /\ UNCHANGED <<coreVars, world, browser, closeFailed, entry>>

\* extractVscoImageMetadata settles: the page was visited
ExtractMetadata(m) ==
  /\ att[m].pc \in {"skipmeta", "meta"}
  /\ att' = [att EXCEPT ![m] =
       LET a == [@ EXCEPT !.navigated = @ + 1] IN
       IF att[m].pc = "skipmeta"
       THEN [a EXCEPT !.pc = "returned",
                      !.result = SkippedResult(SizeOrZero(ImageExists(world).size),
                                   IF world.page = "broken" THEN "none"
                                   ELSE MetaOf(world.page))]
       ELSE IF world.page = "broken"
       THEN [a EXCEPT !.pc = "threw",
                      !.result = AttemptThrew("Failed to extract VSCO image URL")]
       ELSE [a EXCEPT !.pc = "fetch", !.meta = MetaOf(world.page)]]
  /\ UNCHANGED <<coreVars, world, browser, closeFailed, entry>>

\* downloadFromDirectUrl: page.goto(imageUrl) and response.body() settle
FetchBytes(m) ==
  /\ att[m].pc = "fetch"
  /\ att' = [att EXCEPT ![m] =
       LET a == [@ EXCEPT !.fetched = @ + 1] IN
       IF world.response = "ok" THEN [a EXCEPT !.pc = "save"]
       ELSE [a EXCEPT !.pc = "threw",
                      !.result = AttemptThrew("Failed to download from direct URL")]]
  /\ UNCHANGED <<coreVars, world, browser, closeFailed, entry>>

\* saveImageFile settles and the attempt returns the download result
SaveFile(m) ==
  /\ att[m].pc = "save"
  /\ att' = [att EXCEPT ![m] =
       [@ EXCEPT !.pc = "returned", !.written = @ + 1,
                 !.result = DownloadedResult(ImageBytes, att[m].meta),
                 !.counted = IF m = "sequential" THEN "downloaded" ELSE @]]
  /\ UNCHANGED <<coreVars, world, browser, closeFailed, entry>>

NextAttempt ==
  \E m \in Modes :
    AttemptStart(m) \/ ExtractMetadata(m) \/ FetchBytes(m) \/ SaveFile(m)

SpecAttempt == InitAttempt /\ [][NextAttempt]_vars

\* ------------------------------------------ from the entry point to the loop
\* the default of the --concurrency flag, of parseNumericOptions, of
\* BrowserPool and of ConcurrentDownloadService
DefaultWorkers == 3
\* the default of DownloadService.downloadImages
LegacyWorkers == 1
\* the range buildDownloaderOptions clamps the concurrency to
MinWorkers == 1
MaxWorkers == 10

\* JavaScript `o || d` on an optional number: undefined and 0 are falsy
OrElse(o, d) == IF o = Undefined \/ o[1] = 0 THEN d ELSE o[1]
\* Math.max(lo, Math.min(hi, v))
Clamp(lo, hi, v) == IF v < lo THEN lo ELSE IF hi < v THEN hi ELSE v
\* the flag was not given, or a programmatic caller left maxConcurrency out
Given == {Undefined} \cup {<<v>> : v \in 0..MaxOption}

InitEntry ==
  /\ cfg = Short
  /\ semMax = 0
  /\ InitRest
  /\ world = [exists |-> FALSE, size |-> 0, dryRun |-> FALSE, page |-> "meta",
              response |-> "ok"]
  /\ att = [m \in Modes |-> [FreshAttempt EXCEPT !.pc = "none"]]
  /\ browser = "open" /\ closeFailed = {}
  /\ \E p \in {"cli", "programmatic"}, g \in Given, n \in 0..MaxItems,
        f \in BOOLEAN :
       entry = [NoEntry EXCEPT !.path = p, !.pc = IF p = "cli" THEN "argv" ELSE "options",
                               !.given = g, !.n = n,
                               !.maxConcurrency = IF p = "cli" THEN Undefined ELSE g,
                               \* --no-batching on the command line, or
                               \* enableBatching: false in the options object
                               !.noBatchingFlag = f,
                               !.enableBatching = IF p = "programmatic" /\ f
                                                  THEN <<FALSE>> ELSE Undefined]

\* program.option("--no-batching", description): commander registers a
\* negatable option under the name of the flag without its "no-" prefix; its
\* value is true by default and false when the flag is on the command line
NoBatchingLongFlag == <<"no", "batching">>
AttributeName(flag) == IF Len(flag) = 2 /\ flag[1] = "no" THEN flag[2] ELSE flag[1]
NegatableOption(flag, present) == (AttributeName(flag) :> ~present)
\* `options[key]` of a JavaScript object
Property(obj, key) == IF key \in DOMAIN obj THEN <<obj[key]>> ELSE Undefined
\* JavaScript `o ?? d`
Coalesce(o, d) == IF o = Undefined THEN d ELSE o[1]

\* commander fills the flag's defaultValue, `defaults.maxConcurrency || 3`
\* (getDefaultOptions has no maxConcurrency), when --concurrency is absent
CommanderParse ==
  /\ entry.pc = "argv"
  /\ entry' = [entry EXCEPT !.pc = "raw",
                 !.concurrency = IF entry.given = Undefined
                                 THEN <<OrElse(Undefined, DefaultWorkers)>>
                                 ELSE entry.given,
                 !.opts = NegatableOption(NoBatchingLongFlag, entry.noBatchingFlag)]
  /\ UNCHANGED <<coreVars, world, att, browser, closeFailed>>

\* parseNumericOptions: parseInt(String(options.concurrency || 3)); a flag
\* value is a decimal numeral, a non-empty string, which is truthy whatever
\* number it spells, and parseInt gives that number
ParseNumericOptions ==
  /\ entry.pc = "raw"
  /\ entry' = [entry EXCEPT !.pc = "parsed",
                 !.concurrency = IF @ = Undefined THEN <<DefaultWorkers>> ELSE @]
  /\ UNCHANGED <<coreVars, world, att, browser, closeFailed>>

\* buildDownloaderOptions: maxConcurrency = Math.max(1, Math.min(10, concurrency))
BuildDownloaderOptions ==
  /\ entry.pc = "parsed"
  /\ entry' = [entry EXCEPT !.pc = "options",
                 !.maxConcurrency =
                   <<Clamp(MinWorkers, MaxWorkers, entry.concurrency[1])>>,
                 \* `if (options.noBatching === true) enableBatching = false`
                 !.enableBatching =
                   IF Property(entry.opts, "noBatching") = <<TRUE>>
                   THEN <<FALSE>> ELSE Undefined]
  /\ UNCHANGED <<coreVars, world, att, browser, closeFailed>>

\* new Config(options): {...defaults, ...options}; the defaults have no
\* maxConcurrency and validateConfig does not look at it
NewConfig ==
  /\ entry.pc = "options"
  /\ entry' = [entry EXCEPT !.pc = "config"]
  /\ UNCHANGED <<coreVars, world, att, browser, closeFailed>>

\* DownloadService.downloadImages: `config.get("maxConcurrency") || 1`, the
\* sequential loop for 1, else a BrowserPool (maxPoolSize = get || 3)
DownloadImages ==
  /\ entry.pc = "config"
  /\ LET maxConcurrency == OrElse(entry.maxConcurrency, LegacyWorkers) IN
     entry' = IF maxConcurrency = 1
              THEN [entry EXCEPT !.pc = "sequential", !.mode = "sequential",
                                 !.workers = 1]
              ELSE [entry EXCEPT !.pc = "pool", !.mode = "concurrent",
                                 !.poolSize = OrElse(entry.maxConcurrency,
                                                     DefaultWorkers)]
  /\ UNCHANGED <<coreVars, world, att, browser, closeFailed>>

\* downloadImagesSequentially: one `await this.downloadImage` at a time
SequentialStep ==
  /\ entry.pc = "sequential"
  /\ entry' = IF entry.processed < entry.n
              THEN [entry EXCEPT !.processed = @ + 1]
              ELSE [entry EXCEPT !.pc = "returned"]
  /\ UNCHANGED <<coreVars, world, att, browser, closeFailed>>

\* downloadImagesConcurrently: maxConcurrency = get || 3, the run Spec models
DownloadImagesConcurrently ==
  /\ entry.pc = "pool"
  /\ entry' = [entry EXCEPT !.pc = "concurrent",
                 !.workers = OrElse(entry.maxConcurrency, DefaultWorkers),
                 \* `config.get("enableBatching") ?? true`
                 !.batching = IF Coalesce(entry.enableBatching, TRUE)
                              THEN "batches" ELSE "one batch"]
  /\ UNCHANGED <<coreVars, world, att, browser, closeFailed>>

\* the concurrent run returns and the `finally` of downloadImages cleans the pool
ConcurrentReturn ==
  /\ entry.pc = "concurrent"
  /\ entry' = [entry EXCEPT !.pc = "returned", !.processed = entry.n,
                            !.poolSize = 0]
  /\ UNCHANGED <<coreVars, world, att, browser, closeFailed>>

NextEntry ==
  \/ CommanderParse
  \/ ParseNumericOptions
  \/ BuildDownloaderOptions
  \/ NewConfig
  \/ DownloadImages
  \/ SequentialStep
  \/ DownloadImagesConcurrently
  \/ ConcurrentReturn

SpecEntry == InitEntry /\ [][NextEntry]_vars

\* ================================================================ properties
\* a task holds its lease from the return of getContext to its releaseContext call
Holding(i) == pc[i] \in {"attempt", "backoff"}
\* a task function that was started and has not finished
Running(i) == pc[i] \notin {"idle", "queued", "done"}
RunningTasks == {i \in Items : Running(i)}
\* the task function of i has returned and its getContext call had thrown
GetThrew(i) == "get" \in failedIn[i]
CeilDiv(a, b) == (a + b - 1) \div b
\* 0-based index of the batch of item j
BatchOf(j) == (j - 1) \div BatchSize

\* C1: no context is leased to two tasks at the same time.
LeaseExclusive ==
  \A i, j \in Items : (i # j /\ Holding(i) /\ Holding(j)) => ctx[i] # ctx[j]

\* C2: the pool never holds more than maxPoolSize entries.
PoolSizeBound == GetPoolSize <= MaxPoolSize

\* C3: at most k = maxConcurrency task functions are started and not finished
\* at any instant, with batching on or off and for every batchSize.
ConcurrencyBound ==
  /\ Cardinality(RunningTasks) <= MaxConcurrency
  /\ semCount <= MaxConcurrency
ConcurrencyBoundWitness ==
  /\ Cardinality(RunningTasks) = MaxConcurrency
  /\ semQueue # <<>>
  /\ opc = "batch"

\* C4: every started task calls getContext exactly once; if that call returned
\* a context the task calls releaseContext exactly once, with that context,
\* after the retry loop has ended and before its slot is freed; if the call
\* threw, the task never calls releaseContext.
ReleaseGuarantee ==
  \A i \in Items :
    /\ nGet[i] = (IF Running(i) \/ pc[i] = "done" THEN 1 ELSE 0)
    /\ nRel[i] <= 1
    /\ Holding(i) => nRel[i] = 0
    /\ (nRel[i] = 1 /\ Running(i)) => (HasContext(ctx[i]) /\ relArg[i] = ctx[i])
    /\ pc[i] \in {"rel_done", "done"} => nRel[i] = (IF GetThrew(i) THEN 0 ELSE 1)
ReleaseGuaranteeWitness ==
  \E i, j \in Items :
    /\ pc[i] = "done" /\ ~GetThrew(i) /\ ~res[i].success /\ nRel[i] = 1
    /\ pc[j] = "done" /\ GetThrew(j) /\ nRel[j] = 0

\* C5: the returned list has one result per input item, in input order,
\* whatever the order in which the downloads complete.
ResultOrder ==
  /\ Len(results) <= cfg.n
  /\ \A k \in 1..Len(results) : results[k].photoId = k
  /\ opc = "done" => Len(results) = cfg.n
ResultOrderWitness ==
  /\ opc = "done"
  /\ outOfOrder
  /\ Len(results) >= 3

Exhausted(i) ==
  out[i].kind # "none" /\ attempt[i] >= 1 /\ Len(thrown[i]) = attempt[i]
RetryExhaustion ==
  \A i \in Items :
    Exhausted(i) =>
      /\ attempt[i] = Retries
      /\ out[i].kind = "value"
      /\ ~out[i].success
      /\ out[i].error = thrown[i][Len(thrown[i])]
RetryExhaustionWitness ==
  \E i \in Items : Exhausted(i) /\ Retries >= 2 /\ out[i].error = ErrorOf(Retries)

\* C8: tasks that had to wait are started in the order of their acquire calls.
SemaphoreFIFO ==
  \A a, b \in waited :
    (Pos(acquired, a) < Pos(acquired, b) /\ Pos(started, b) > 0)
      => (Pos(started, a) > 0 /\ Pos(started, a) < Pos(started, b))
SemaphoreFIFOWitness ==
  \E a, b \in waited :
    /\ a > b
    /\ Pos(acquired, a) < Pos(acquired, b)
    /\ Pos(started, b) > 0

\* C9: when a task function settles, resolved or rejected, the count is
\* decremented exactly once, the head of a non-empty queue is started (taking
\* the slot again), and the acquire promise settles with the value or the
\* error of that task function.
SlotNeverLeaked ==
  [][\A i \in Items :
       (pc[i] = "running" /\ pc'[i] = "done") =>
         /\ res'[i] = out'[i]
         /\ out'[i] \in {Success(i), Rejection(i, "fn rejected")}
         /\ IF semQueue = <<>>
            THEN semCount' = semCount - 1 /\ semQueue' = <<>>
            ELSE /\ semCount' = semCount
                 /\ semQueue' = Tail(semQueue)
                 /\ pc'[Head(semQueue)] = "running"]_vars
SlotNeverLeakedWitness ==
  \E i, j \in Items :
    /\ pc[i] = "done" /\ res[i].kind = "error"
    /\ j \in waited /\ Pos(started, j) > Pos(started, i)
    /\ semCount = Cardinality({t \in Items : pc[t] = "running"})

\* C10: with batching, no task of a batch is started before every task of the
\* batches before it has finished and the delay after each of them has
\* elapsed; a run of n items in batches of b sleeps exactly ceil(n/b) - 1
\* delays, none of them after the last batch.
BatchBarrier ==
  cfg.enableBatching =>
    /\ \A j \in 1..cfg.n :
         pc[j] # "idle" =>
           /\ \A m \in 1..(BatchOf(j) * BatchSize) : pc[m] = "done"
           /\ delays >= BatchOf(j)
           /\ opc = "delay" => j <= batchHi
    /\ opc = "delay" => (batchHi < cfg.n /\ delays = BatchOf(batchHi) + 1)
    /\ opc = "done" => delays = CeilDiv(cfg.n, BatchSize) - 1
BatchBarrierWitness ==
  /\ cfg.enableBatching
  /\ opc = "done"
  /\ delays >= 2
  /\ Len(results) = cfg.n

\* C11: with batching the n items are split into ceil(n/b) consecutive
\* slices, slice j holding items j*b .. min((j+1)*b, n)-1 (0-based), every item
\* is in exactly one slice, the slices are processed in increasing j, and b is
\* the configured batchSize, or maxConcurrency when batchSize is not set.
ClaimedBatchSize == IF cfg.batchSize # 0 THEN cfg.batchSize ELSE MaxConcurrency
BatchPartition ==
  cfg.enableBatching =>
    /\ Len(slices) <= CeilDiv(cfg.n, ClaimedBatchSize)
    /\ \A k \in 1..Len(slices) :
         /\ slices[k].lo = (k - 1) * ClaimedBatchSize
         /\ slices[k].hi = Min(k * ClaimedBatchSize, cfg.n)
    /\ Len(slices) > 0 =>
         acquired = [k \in 1..slices[Len(slices)].hi |-> k]
    /\ opc = "done" =>
         /\ Len(slices) = CeilDiv(cfg.n, ClaimedBatchSize)
         /\ \A i \in 1..cfg.n :
              Cardinality({k \in 1..Len(slices) :
                             slices[k].lo < i /\ i <= slices[k].hi}) = 1
BatchPartitionWitness ==
  /\ cfg.enableBatching
  /\ opc = "done"
  /\ Len(slices) = 2
  /\ slices[1].hi - slices[1].lo = 2
  /\ slices[2].hi - slices[2].lo = 1

\* C12: for every configured delayBetweenBatches d >= 0 the pause between two
\* consecutive batches lasts d milliseconds, and no pause is made when d = 0.
DelayValue ==
  cfg.enableBatching =>
    /\ opc = "delay" => pauseMs = cfg.delayBetweenBatches
    /\ cfg.delayBetweenBatches = 0 => delays = 0

\* C13: a getContext that finds no entry with inUse = false in a pool that
\* already holds maxPoolSize entries throws the capacity error and changes no
\* pool entry; downloadSingleImage turns it into a result with success = false
\* carrying the message, counts one failure, and never calls releaseContext.
CapacityError == "No browser contexts available and pool is at capacity"
PoolExhaustion ==
  [][\A i \in Items :
       /\ (/\ pc[i] = "sweep" /\ pc'[i] # "sweep" /\ stale[i] = <<>>
           /\ \A k \in 1..Len(pool) : ent[pool[k]].inUse
           /\ Len(pool) >= MaxPoolSize)
          => /\ pool' = pool /\ ent' = ent
             /\ out'[i] = [kind |-> "value", photoId |-> i, success |-> FALSE,
                           skipped |-> FALSE, error |-> CapacityError]
             /\ stats' = [stats EXCEPT !.failed = stats.failed + 1]
             /\ nRel'[i] = 0
       /\ out[i].error = CapacityError
          => (nRel'[i] = 0 /\ stats'.failed >= stats.failed)]_vars
PoolExhaustionWitness ==
  \E i \in Items :
    /\ pc[i] = "done"
    /\ res[i].error = CapacityError /\ ~res[i].success
    /\ nRel[i] = 0 /\ nGet[i] = 1
    /\ stats.failed >= 1

\* C14: when a file of the item exists, an attempt returns success = true,
\* skipped = true with the size of that file, fetches no image bytes and
\* writes no file; the existence test comes before the dry-run test, so the
\* result is skipped (not dryRun) in dry-run mode too.
IdempotentSkip ==
  \A m \in Modes :
    /\ world.exists =>
         /\ att[m].fetched = 0 /\ att[m].written = 0
         /\ att[m].pc \in {"start", "skipmeta", "returned"}
         /\ att[m].pc = "returned" =>
              /\ att[m].result.kind = "value"
              /\ att[m].result.success /\ att[m].result.skipped
              /\ ~att[m].result.dryRun
              /\ att[m].result.size = world.size
    /\ (~world.exists /\ world.dryRun /\ att[m].pc # "start") =>
         (att[m].pc = "returned" /\ att[m].result.dryRun)
IdempotentSkipWitness ==
  /\ world.exists /\ world.dryRun /\ world.size = MaxFileSize
  /\ att["concurrent"].pc = "returned"
  /\ att["concurrent"].result.skipped

\* C15: for an item whose file exists, the metadata extraction (the visit of
\* the item's page) is made and its metadata is attached to the skipped
\* result in sequential and in concurrent mode alike, so both modes give the
\* same result for the same item.
SkippedMetadata ==
  world.exists =>
    /\ \A m \in Modes :
         att[m].pc = "returned" =>
           /\ att[m].navigated = 1
           /\ world.page # "broken" => att[m].result.meta = MetaOf(world.page)
    /\ (\A m \in Modes : att[m].pc = "returned") =>
         att["sequential"].result = att["concurrent"].result

\* C16: every item handled by downloadSingleImage increments exactly one of
\* the downloaded / failed / skipped counters, once, so at every point their
\* sum is the number of items whose download has finished; on return the
\* counters are the numbers of results with (success and not skipped), (not
\* success) and (skipped), as getDownloadSummary(results) counts them.
Decided == {i \in Items : out[i].kind # "none"}
StatsCounters ==
  /\ stats.downloaded + stats.failed + stats.skipped = Cardinality(Decided)
  /\ stats.downloaded =
       Cardinality({i \in Decided : out[i].success /\ ~out[i].skipped})
  /\ stats.failed = Cardinality({i \in Decided : ~out[i].success})
  /\ stats.skipped = Cardinality({i \in Decided : out[i].skipped})
  /\ opc = "done" =>
       /\ stats.downloaded = GetDownloadSummary(results).successful
       /\ stats.failed = GetDownloadSummary(results).failed
       /\ stats.skipped = GetDownloadSummary(results).skipped
       /\ stats.downloaded + stats.failed + stats.skipped = cfg.n
StatsCountersWitness ==
  /\ opc = "done"
  /\ stats.downloaded >= 1 /\ stats.failed >= 1 /\ stats.skipped >= 1

\* C17: after BrowserPool.cleanup() returns the pool is empty (getPoolSize()
\* and getAvailableCount() are 0), also when the close of some pooled context
\* failed, and a second cleanup() leaves the pool as the first one left it.
PoolCleanup ==
  /\ [](opc \in {"cleaned", "cleaned2"} =>
          (GetPoolSize = 0 /\ GetAvailableCount = 0))
  /\ [][(opc = "cleaned" /\ opc' = "cleaned2") =>
          (pool' = pool /\ ent' = ent /\ closeFailed' = closeFailed)]_vars
PoolCleanupWitness ==
  /\ opc = "cleaned2"
  /\ GetPoolSize = 0
  /\ \E c \in closeFailed : \E d \in closed \ closeFailed : d > c

\* C18: if every attempt and every pool operation terminates then, under fair
\* scheduling, every task queued on the Semaphore is eventually started,
\* every item eventually has a terminal result and downloadImagesConcurrently
\* eventually returns.
Returned == opc \in {"done", "cleaned", "cleaned2"}
Termination ==
  /\ \A i \in Items : (pc[i] = "queued") ~> (pc[i] \notin {"idle", "queued"})
  /\ \A i \in Items : (i <= cfg.n) ~> (res[i].kind = "value" /\ pc[i] = "done")
  /\ <>(Returned /\ Len(results) = cfg.n)
TerminationWitness ==
  /\ Returned
  /\ Len(results) = cfg.n
  /\ waited # {}
  /\ \E i \in 1..cfg.n : "attempts" \in failedIn[i]
  /\ \E i \in 1..cfg.n : results[i].success

\* C19: with enableBatching = false the whole list is one batch handed to one
\* Semaphore of size min(items.length, maxConcurrency), no inter-batch delay
\* is made, and at most maxConcurrency tasks run at once.
NoBatchingMode ==
  (~cfg.enableBatching /\ opc \notin {"init"}) =>
    /\ slices = <<[lo |-> 0, hi |-> cfg.n]>>
    /\ semMax = (IF cfg.n < MaxConcurrency THEN cfg.n ELSE MaxConcurrency)
    /\ delays = 0 /\ pauseMs = 0 /\ opc # "delay"
    /\ Cardinality(RunningTasks) <= semMax
    /\ semMax <= MaxConcurrency
    /\ acquired = [k \in 1..cfg.n |-> k]
NoBatchingModeWitness ==
  /\ ~cfg.enableBatching
  /\ cfg.n > MaxConcurrency
  /\ opc = "done"
  /\ Len(results) = cfg.n
  /\ Cardinality(waited) = cfg.n - MaxConcurrency


\* C20: when maxConcurrency is not configured (no --concurrency flag, or a
\* programmatic Config without maxConcurrency), the run that
\* DownloadService.downloadImages starts is the concurrent one, with 3 workers
\* and a pool of 3, whichever the entry path
DefaultConcurrency ==
  (entry.given = Undefined /\ entry.pc \in {"sequential", "concurrent"}) =>
    /\ entry.mode = "concurrent"
    /\ entry.workers = DefaultWorkers
    /\ entry.poolSize = DefaultWorkers


\* C21: when the command line contains --no-batching, the options handed to
\* the downloader have enableBatching = false, and a concurrent run processes
\* all images as one batch
CliNoBatching ==
  (entry.path = "cli" /\ entry.noBatchingFlag) =>
    /\ entry.pc \in {"options", "config", "sequential", "pool", "concurrent",
                     "returned"} => entry.enableBatching = <<FALSE>>
    /\ entry.pc = "concurrent" => entry.batching = "one batch"


\* C22: a context that a task holds is never closed by replaceContext and
\* never removed from the pool by it, and a context on which replaceContext
\* has started (its close() was called) is never handed out by getContext.
LeaseAndDestruction ==
  \A i \in Items :
    Holding(i) => (ctx[i] \notin closed /\ IndexOf(pool, ctx[i]) # 0)


\* C23: when replaceContext(e) resumes after closing e, the splice removes e
\* from the pool and removes no other entry, whatever ran while it was
\* suspended; the createContext that follows adds at most one entry.
ReplaceRemovesTarget ==
  [][\A i \in Items :
       /\ (pc[i] = "rc_close" /\ pc'[i] # "rc_close") =>
            /\ SeqToSet(pool) \ SeqToSet(pool') \subseteq {replaced[i]}
            /\ IndexOf(pool', replaced[i]) = 0
       /\ (pc[i] = "rc_create" /\ pc'[i] # "rc_create") =>
            /\ Len(pool') <= Len(pool) + 1
            /\ SeqToSet(pool) \subseteq SeqToSet(pool')]_vars


\* pool entries with inUse = true
InUseCount == GetPoolSize - GetAvailableCount

\* C24: the number of pool entries with inUse = true never exceeds
\* maxPoolSize and never exceeds the number of tasks the Semaphore has
\* admitted and not yet seen complete.
InUseBound ==
  /\ InUseCount <= MaxPoolSize
  /\ InUseCount <= semCount


\* C25: the useCount of a pooled context never exceeds maxContextUses:
\* getContext never leases a context that has reached its use limit.
UseCountBound ==
  \A k \in 1..Len(pool) : ent[pool[k]].useCount <= MaxContextUses


\* the test of getContext that ends in the capacity error: no entry is
\* available and the pool cannot grow
AtCapacity == FindAvailable = 0 /\ ~CanCreate(Len(pool))

\* C26: in a run in which every releaseContext call completes, a getContext
\* call that reaches its find never meets a pool at capacity with every entry
\* in use, so no task ever gets the capacity error, whatever replacements and
\* failed creations happened before.
NoCapacityError ==
  ~cfg.faultyPages =>
    \A i \in Items :
      /\ (pc[i] = "sweep" /\ stale[i] = <<>>) => ~AtCapacity
      /\ out[i].error # CapacityError
      /\ res[i].error # CapacityError
NoCapacityErrorWitness ==
  /\ ~cfg.faultyPages
  /\ closed # {}
  /\ Len(pool) < MaxPoolSize
  /\ \E i, j \in Items :
       /\ pc[i] = "sweep" /\ stale[i] = <<>> /\ FindAvailable = 0
       /\ Holding(j) /\ IndexOf(pool, ctx[j]) # 0
       /\ \E m \in Items : pc[m] = "done" /\ GetThrew(m)


\* C27: at every yield point 0 <= currentCount <= maxConcurrent, and
\* currentCount is the number of task functions the Semaphore has started
\* that have not completed yet.
SemaphoreCount ==
  /\ 0 <= semCount /\ semCount <= semMax
  /\ semCount = Cardinality({i \in Items : pc[i] = "running"})
SemaphoreCountWitness ==
  /\ semCount = semMax /\ semMax = MaxPermits
  /\ semQueue # <<>>
  /\ \E i, j \in Items : /\ pc[i] = "done" /\ res[i].kind = "error"
                         /\ j \in waited /\ pc[j] = "running"


\* C28: at every yield point a non-empty queue means that every slot is
\* taken, and an acquire call made while currentCount < maxConcurrent starts
\* its task function before it returns instead of queueing it.
WorkConserving ==
  /\ [](semQueue # <<>> => semCount = semMax)
  /\ [][\A i \in Items :
          (pc[i] = "idle" /\ pc'[i] # "idle" /\ semCount < semMax) =>
            /\ pc'[i] = "running"
            /\ semCount' = semCount + 1
            /\ semQueue' = semQueue
            /\ i \notin waited']_vars
WorkConservingWitness ==
  /\ semQueue # <<>> /\ semCount = semMax
  /\ \E i, j \in Items :
       /\ pc[i] = "running" /\ i \notin waited /\ Pos(acquired, i) > 1
       /\ pc[j] = "done"


\* C29: in the retry loop with retries = r, the failed attempt number a < r is
\* followed by a sleep of 2^a * 1000 ms (2000, 4000, 8000, ...); no sleep
\* follows the r-th failed attempt or a successful attempt, so an item whose
\* attempts all fail sleeps exactly r - 1 times.
BackoffSchedule ==
  \A i \in Items :
    /\ \A k \in 1..Len(sleeps[i]) : sleeps[i][k] = (2 ^ k) * 1000
    /\ Len(sleeps[i]) <= Retries - 1
    /\ pc[i] = "backoff" => Len(sleeps[i]) = attempt[i] /\ Len(thrown[i]) = attempt[i]
    /\ pc[i] = "attempt" => Len(sleeps[i]) = attempt[i] - 1
    /\ (Running(i) /\ pc[i] \notin {"attempt", "backoff"}) =>
         Len(sleeps[i]) = (IF out[i].success \/ GetThrew(i) \/ thrown[i] = <<>>
                          THEN Len(thrown[i]) ELSE Retries - 1)
BackoffScheduleWitness ==
  \E i \in Items :
    /\ pc[i] = "rel_done" /\ ~out[i].success
    /\ Retries = MaxAttempts
    /\ Len(sleeps[i]) = Retries - 1
    /\ SubSeq(sleeps[i], 1, 3) = <<2000, 4000, 8000>>


\* C30: for every retries value that Config validation accepts, 0 included,
\* the number of attempts made for one item never exceeds the configured
\* value.
AttemptsBounded ==
  \A i \in Items :
    /\ attempt[i] <= cfg.retries
    /\ Len(thrown[i]) <= cfg.retries


\* C31: a second releaseContext(ctx) call, made after the first call for the
\* same context has returned, changes no entry's inUse flag or useCount and
\* does not change which entries the pool holds, from the call to its return,
\* also when another caller has leased the context in between.
DoubleReleaseHarmless ==
  [][\A i \in Clients :
       (/\ "release" \notin failedIn[i]
        /\ \/ nRel[i] = 1 /\ nRel'[i] = 2
           \/ nRel[i] = 2 /\ pc'[i] # pc[i])
         => (ent' = ent /\ pool' = pool)]_vars


\* C34: a releaseContext call whose argument is not an entry of the pool (a
\* context the pool never created, or one a replacement has removed) returns
\* at once without throwing, whatever context.pages() would do, and leaves the
\* pool's membership, every entry's inUse flag and useCount, and the set of
\* closed contexts unchanged.
UnknownReleaseNoOp ==
  [][\A i \in Clients :
       (nRel'[i] = nRel[i] + 1 /\ IndexOf(pool, relArg'[i]) = 0)
         => /\ pool' = pool
            /\ ent' = ent
            /\ closed' = closed
            /\ pc'[i] = "rel_done"
            /\ out'[i].kind # "error"
            /\ failedIn'[i] = failedIn[i]]_vars

\* a foreign context has been released, and so has a context that a
\* replacement had removed from the pool while its entry was still marked
\* in use: the mark is still there
UnknownReleaseNoOpWitness ==
  /\ cfg.faultyPages
  /\ \E i \in Clients : relArg[i] = Foreign /\ pc[i] = "rel_done"
  /\ \E j \in Clients :
       /\ pc[j] = "rel_done"
       /\ nRel[j] = 1
       /\ relArg[j] \in 1..MaxCtx
       /\ IndexOf(pool, relArg[j]) = 0
       /\ ent[relArg[j]].inUse
       /\ "release" \notin failedIn[j]
       /\ \A k \in Clients \ {j} : ctx[k] # relArg[j]


CleanupOncePerCall ==
  /\ [](/\ entry.cleanups <= 1
        /\ entry.pc \in {"initialize", "concurrent", "finally"} => entry.cleanups = 0
        /\ entry.pc \in {"returned", "threw"} =>
             /\ entry.cleanups = 1
             /\ entry.pc = entry.outcome
             /\ \A i \in Items : ~Running(i)
        /\ (opc = "new" /\ entry.pc # "initialize") =>
             /\ entry.outcome = "threw"
             /\ \A i \in Items : pc[i] = "idle")
  /\ [][entry'.cleanups # entry.cleanups =>
          /\ entry'.cleanups = entry.cleanups + 1
          /\ entry'.pc = entry.outcome
          /\ \A i \in Items : ~Running(i) /\ ~Holding(i) /\ pc[i] # "queued"
          /\ opc # "new" => \A i \in 1..cfg.n : pc[i] = "done"]_vars

\* C32: in concurrent mode downloadImages calls BrowserPool.cleanup exactly
\* once per call, after every per-item task has finished and also when
\* initialize() or the run throws, an initialize() failure propagating after
\* the cleanup; and when cleanup starts no entry of the pool is leased
\* (inUse = true).
PoolLifecycle ==
  /\ CleanupOncePerCall
  /\ [][entry'.cleanups # entry.cleanups =>
          \A k \in 1..Len(pool) : ~ent[pool[k]].inUse]_vars

====
